---- MODULE Spec2Model ----
(***************************************************************************)
(* A model of the orchestration logic of the generative-media UI:          *)
(*   - the live-status image generation dialog   (src/unnamed/part_000)    *)
(*   - the simple image generation dialog and generateImages                *)
(*       (src/components/ImageGenerationDialog.tsx, geminiService.ts)       *)
(*   - the image gallery dialog                  (geminiService.ts 203-326) *)
(*   - generateVideo: request builder, poller, asset fetcher                *)
(* Exactly one component is mounted in a behaviour (variable component);   *)
(* the records of the other components stay at their unmounted value.      *)
(* Array indices are 0-based as in the source; a TLA+ sequence holding an  *)
(* array is read at index + 1.  An optional value (T | undefined) is the   *)
(* sequence <<>> (undefined) or <<v>>.                                     *)
(***************************************************************************)
EXTENDS Integers, Sequences, FiniteSets, TLC

VARIABLES component, live, simple, gallery, video

vars == <<component, live, simple, gallery, video>>

----------------------------------------------------------------------------
(* Bounds of the model *)

\* largest maxImagesToAdd / maxSelectable property handed to a dialog
MaxSelectable == 2
\* largest number of images in the gallery's images property
MaxGallery == 3
\* largest number of status re-fetches the provider leaves unfinished
MaxPolls == 3

(* Program constants *)

\* <option value="1"> .. <option value="4"> of the num-images select
MinImages == 1
MaxImages == 4
\* useState(2)
DefaultNumberOfImages == 2

----------------------------------------------------------------------------
(* Generic helpers: Array.prototype.includes / filter / Math.min *)

Includes(s, x) == \E k \in 1..Len(s) : s[k] = x

Without(s, x) == SelectSeq(s, LAMBDA y : y # x)

Min(a, b) == IF a < b THEN a ELSE b

Range(s) == {s[k] : k \in 1..Len(s)}

Undefined == <<>>

Some(v) == <<v>>

----------------------------------------------------------------------------
(* Prompts: strings over a blank and a letter; String.prototype.trim *)

\* the prompts typed: empty, blanks only, a text after a blank
Prompts == {<<>>, <<" ", " ">>, <<" ", "a">>}

RECURSIVE TrimStart(_)
TrimStart(s) ==
  IF s # <<>> /\ Head(s) = " " THEN TrimStart(Tail(s)) ELSE s

RECURSIVE TrimEnd(_)
TrimEnd(s) ==
  IF s # <<>> /\ s[Len(s)] = " " THEN TrimEnd(SubSeq(s, 1, Len(s) - 1)) ELSE s

Trim(s) == TrimEnd(TrimStart(s))

\* !prompt: the prompt tested without trimming it
IsEmptyUntrimmed(prompt) == prompt = <<>>

\* !prompt.trim()
IsBlank(prompt) == Trim(prompt) = <<>>

----------------------------------------------------------------------------
(* Values thrown or rejected; err instanceof Error ? err.message : default *)

NetworkError == [isError |-> TRUE, message |-> "Network error"]

EmptyError == [isError |-> TRUE, message |-> ""]

NonError == [isError |-> FALSE, message |-> "not an Error"]

ErrorValues == {NetworkError, EmptyError, NonError}

\* what the onImagesGenerated property throws when it fails
CallbackError == [isError |-> TRUE, message |-> "onImagesGenerated failed"]

ErrorMessage(err) ==
  IF err.isError THEN err.message ELSE "An unknown error occurred."

\* base64 image payloads the provider may return in part.inlineData.data
ImageBytes == {"QUJD"}

\* base64ToImageFile(base64, index)
base64ToImageFile(base64, index) ==
  [ file   |-> [ name |-> "generated-image-" \o ToString(index) \o ".png",
                 type |-> "image/png",
                 data |-> base64 ],
    base64 |-> base64 ]

----------------------------------------------------------------------------
(* Live-status image generation dialog: src/unnamed/part_000               *)

\* JavaScript's arr[i] = v on a copy of arr: a write past the end extends it
Hole == [status |-> "hole", data |-> Undefined, error |-> Undefined]

ArraySet(arr, i, v) ==
  IF i < Len(arr)
    THEN [arr EXCEPT ![i + 1] = v]
    ELSE arr \o [k \in 1..(i - Len(arr)) |-> Hole] \o <<v>>

\* { status: 'pending' }
PendingResult == [status |-> "pending", data |-> Undefined, error |-> Undefined]

\* Array(numberOfImages).fill({ status: 'pending' })
InitialResults(n) == [k \in 1..n |-> PendingResult]

\* a success that keeps the fields of the slot's previous entry:
\* { ...prev[i], status: 'success', data: imageFile, error: '' }
SlotSuccessKeepsError(results, i, imageFile) ==
  ArraySet(results, i,
           [status |-> "success", data |-> Some(imageFile), error |-> Some("")])

\* a success pushed at the end of the array: [...prev, { status: 'success', data }]
SlotSuccessAppends(results, i, imageFile) ==
  Append(results, [status |-> "success", data |-> Some(imageFile), error |-> Undefined])

\* newResults[i] = { status: 'success', data: imageFile }
SlotSuccess(results, i, imageFile) ==
  ArraySet(results, i,
           [status |-> "success", data |-> Some(imageFile), error |-> Undefined])

\* a failure that also marks the still pending sibling slots as failed
SlotErrorCancelsPending(results, i, message) ==
  [k \in 1..Len(results) |->
     IF k = i + 1 \/ results[k].status = "pending"
       THEN [status |-> "error", data |-> Undefined, error |-> Some(message)]
       ELSE results[k]]

\* newResults[i] = { status: 'error', error: message }
SlotError(results, i, message) ==
  ArraySet(results, i,
           [status |-> "error", data |-> Undefined, error |-> Some(message)])

\* [{ status: 'error', error: 'Please enter a prompt to generate images.' }]
PromptErrorResults ==
  << [status |-> "error", data |-> Undefined,
      error |-> Some("Please enter a prompt to generate images.")] >>

\* generationResults.filter(r => r.status === 'success').length
SuccessCount(results) ==
  Cardinality({k \in 1..Len(results) : results[k].status = "success"})

\* Math.min(maxImagesToAdd, successfulImagesCount)
MaxCanSelect(results, maxImagesToAdd) == Min(maxImagesToAdd, SuccessCount(results))

\* toggleSelection(index): the value of selectedIndices after the call
LiveToggle(results, selected, maxImagesToAdd, index) ==
  IF index >= Len(results) \/ results[index + 1].status # "success"
    THEN selected
    ELSE IF Includes(selected, index)
      THEN Without(selected, index)
      ELSE IF Len(selected) < MaxCanSelect(results, maxImagesToAdd)
        THEN Append(selected, index)
        ELSE selected

\* selectedIndices.map(index => generationResults[index]?.data).filter(img => !!img)
LiveImagesToAdd(results, selected) ==
  LET data(k) == IF selected[k] < Len(results)
                   THEN results[selected[k] + 1].data ELSE Undefined
      RECURSIVE Collect(_)
      Collect(k) == IF k > Len(selected) THEN <<>> ELSE data(k) \o Collect(k + 1)
  IN  Collect(1)

\* one generateContent promise chain of the batch, for slot i
InflightRequest ==
  [pc |-> "inflight", response |-> "none", err |-> Undefined, notified |-> 0]

\* the dialog as mounted with its properties
LiveMounted(initialPrompt, maxImagesToAdd) ==
  [ maxImagesToAdd    |-> maxImagesToAdd,
    prompt            |-> initialPrompt,
    numberOfImages    |-> DefaultNumberOfImages,
    generationStatus  |-> "idle",
    generationResults |-> <<>>,
    selectedIndices   |-> <<>>,
    requests          |-> <<>>,
    added             |-> Undefined,
    closed            |-> FALSE ]

LiveUnmounted == [LiveMounted(<<>>, 0) EXCEPT !.closed = TRUE]

\* a promise reaction (a microtask) is due: it runs before any other event
LiveCatchDue == \E k \in 1..Len(live.requests) : live.requests[k].pc = "catching"

\* Promise.race in place of Promise.allSettled: one settled request is enough
LiveAnySettled ==
  \E k \in 1..Len(live.requests) : live.requests[k].pc \in {"fulfilled", "rejected"}

LiveAllSettled ==
  \A k \in 1..Len(live.requests) : live.requests[k].pc \in {"fulfilled", "rejected"}

\* setGenerationStatus('finished') without the await before it
LiveFinishDueUnawaited == live.generationStatus = "generating"

LiveFinishDue == live.generationStatus = "generating" /\ LiveAllSettled

LiveMicrotaskDue == LiveCatchDue \/ LiveFinishDue

\* the user sets the prompt and the number of images, then clicks Generate
\* (the button, the textarea and the select are disabled while generating)
LHandleGenerate(p, n) ==
  /\ component = "live" /\ ~live.closed
  /\ live.generationStatus # "generating"
  /\ ~LiveMicrotaskDue
  /\ IF IsBlank(p)
       THEN live' = [live EXCEPT !.prompt = p, !.numberOfImages = n,
                                 !.generationResults = PromptErrorResults,
                                 !.generationStatus = "finished"]
       ELSE live' = [live EXCEPT !.prompt = p, !.numberOfImages = n,
                                 !.generationStatus = "generating",
                                 !.selectedIndices = <<>>,
                                 !.generationResults = InitialResults(n),
                                 !.requests = [k \in 1..n |-> InflightRequest]]
  /\ UNCHANGED <<component, simple, gallery, video>>

\* the .then callback of request i with a part carrying inlineData:
\* setGenerationResults(success); onImagesGenerated([imageFile]); return imageFile
LImageReturned(i, base64, callbackThrows) ==
  /\ component = "live" /\ ~live.closed /\ ~LiveMicrotaskDue
  /\ i < Len(live.requests) /\ live.requests[i + 1].pc = "inflight"
  /\ live' = [live EXCEPT
       !.generationResults = SlotSuccess(@, i, base64ToImageFile(base64, i)),
       !.requests[i + 1] =
          IF callbackThrows
            THEN [pc |-> "catching", response |-> "image",
                  err |-> Some(CallbackError), notified |-> @.notified + 1]
            ELSE [pc |-> "fulfilled", response |-> "image",
                  err |-> Undefined, notified |-> @.notified + 1]]
  /\ UNCHANGED <<component, simple, gallery, video>>

\* the .catch callback of request i: setGenerationResults(error); reject again
LCatch(i) ==
  /\ component = "live" /\ ~live.closed
  /\ i < Len(live.requests) /\ live.requests[i + 1].pc = "catching"
  /\ live' = [live EXCEPT
       !.generationResults = SlotError(@, i, ErrorMessage(live.requests[i + 1].err[1])),
       !.requests[i + 1].pc = "rejected"]
  /\ UNCHANGED <<component, simple, gallery, video>>

\* the .then callback of request i finds no part with inlineData and throws
LNoImageData(i) ==
  /\ component = "live" /\ ~live.closed /\ ~LiveMicrotaskDue
  /\ i < Len(live.requests) /\ live.requests[i + 1].pc = "inflight"
  /\ live' = [live EXCEPT
       !.requests[i + 1] =
          [pc |-> "catching", response |-> "nodata",
           err |-> Some([isError |-> TRUE, message |-> "No image data returned."]),
           notified |-> @.notified]]
  /\ UNCHANGED <<component, simple, gallery, video>>

\* generateContent of request i rejects with err
LRequestRejected(i, err) ==
  /\ component = "live" /\ ~live.closed /\ ~LiveMicrotaskDue
  /\ i < Len(live.requests) /\ live.requests[i + 1].pc = "inflight"
  /\ live' = [live EXCEPT
       !.requests[i + 1] =
          [pc |-> "catching", response |-> "rejected",
           err |-> Some(err), notified |-> @.notified]]
  /\ UNCHANGED <<component, simple, gallery, video>>

\* await Promise.allSettled(imagePromises); setGenerationStatus('finished')
LFinish ==
  /\ component = "live" /\ ~live.closed
  /\ LiveFinishDue /\ ~LiveCatchDue
  /\ live' = [live EXCEPT !.generationStatus = "finished"]
  /\ UNCHANGED <<component, simple, gallery, video>>

\* a click on a rendered image: only 'success' slots carry the onClick
LToggleSelection(index) ==
  /\ component = "live" /\ ~live.closed /\ ~LiveMicrotaskDue
  /\ live.generationStatus \in {"generating", "finished"}
  /\ index < Len(live.generationResults)
  /\ live.generationResults[index + 1].status = "success"
  /\ live' = [live EXCEPT !.selectedIndices =
                LiveToggle(live.generationResults, @, live.maxImagesToAdd, index)]
  /\ UNCHANGED <<component, simple, gallery, video>>

\* Add Selected Images (disabled while the selection is empty):
\* onAddImages(imagesToAdd); onClose()
LHandleAddSelected ==
  /\ component = "live" /\ ~live.closed /\ ~LiveMicrotaskDue
  /\ Len(live.selectedIndices) # 0
  /\ live' = [LiveUnmounted EXCEPT
       !.added = Some(LiveImagesToAdd(live.generationResults, live.selectedIndices))]
  /\ UNCHANGED <<component, simple, gallery, video>>

\* the X button: onClose (the owner unmounts the dialog: its state is gone)
LClose ==
  /\ component = "live" /\ ~live.closed /\ ~LiveMicrotaskDue
  /\ live' = LiveUnmounted
  /\ UNCHANGED <<component, simple, gallery, video>>

LiveNext ==
  \/ \E p \in Prompts, n \in MinImages..MaxImages : LHandleGenerate(p, n)
  \/ \E i \in 0..(MaxImages - 1), b \in ImageBytes, t \in BOOLEAN : LImageReturned(i, b, t)
  \/ \E i \in 0..(MaxImages - 1) : LNoImageData(i)
  \/ \E i \in 0..(MaxImages - 1), e \in ErrorValues : LRequestRejected(i, e)
  \/ \E i \in 0..(MaxImages - 1) : LCatch(i)
  \/ LFinish
  \/ \E i \in 0..(MaxImages - 1) : LToggleSelection(i)
  \/ LHandleAddSelected
  \/ LClose

LiveInit ==
  /\ component = "live"
  /\ \E p \in Prompts, m \in 0..MaxSelectable : live = LiveMounted(p, m)

----------------------------------------------------------------------------
(* Image gallery dialog: src/services/geminiService.ts 203-326             *)

\* the images property: previously generated images, told apart by index
GalleryImages(n) == [k \in 1..n |-> base64ToImageFile("QUJD", k - 1)]

\* the limit test off by one: prev.length <= maxSelectable
GalleryToggleOffByOne(selected, maxSelectable, index) ==
  IF Includes(selected, index)
    THEN Without(selected, index)
    ELSE IF Len(selected) <= maxSelectable
      THEN Append(selected, index)
      ELSE selected

\* toggleSelection(index): the value of selectedIndices after the call
GalleryToggle(selected, maxSelectable, index) ==
  IF Includes(selected, index)
    THEN Without(selected, index)
    ELSE IF Len(selected) < maxSelectable
      THEN Append(selected, index)
      ELSE selected

\* selectedIndices.map((index) => images[index])
ImagesToAdd(images, selected) ==
  [k \in 1..Len(selected) |->
     IF selected[k] < Len(images) THEN Some(images[selected[k] + 1]) ELSE Undefined]

GalleryMounted(images, maxSelectable) ==
  [ images          |-> images,
    maxSelectable   |-> maxSelectable,
    selectedIndices |-> <<>>,
    added           |-> Undefined,
    closed          |-> FALSE ]

GalleryUnmounted == [GalleryMounted(<<>>, 0) EXCEPT !.closed = TRUE]

\* a click on a rendered image of the grid
GToggleSelection(index) ==
  /\ component = "gallery" /\ ~gallery.closed
  /\ index < Len(gallery.images)
  /\ gallery' = [gallery EXCEPT !.selectedIndices =
                   GalleryToggle(@, gallery.maxSelectable, index)]
  /\ UNCHANGED <<component, live, simple, video>>

\* Add Selected Images (disabled while the selection is empty):
\* onAddImages(imagesToAdd); onClose()
GHandleAddSelected ==
  /\ component = "gallery" /\ ~gallery.closed
  /\ Len(gallery.selectedIndices) # 0
  /\ gallery' = [GalleryUnmounted EXCEPT
       !.added = Some(ImagesToAdd(gallery.images, gallery.selectedIndices))]
  /\ UNCHANGED <<component, live, simple, video>>

\* the X button: onClose (the owner unmounts the dialog: its state is gone)
GClose ==
  /\ component = "gallery" /\ ~gallery.closed
  /\ gallery' = GalleryUnmounted
  /\ UNCHANGED <<component, live, simple, video>>

GalleryNext ==
  \/ \E i \in 0..(MaxGallery - 1) : GToggleSelection(i)
  \/ GHandleAddSelected
  \/ GClose

GalleryInit ==
  /\ component = "gallery"
  /\ \E n \in 0..MaxGallery, m \in 0..MaxSelectable :
       gallery = GalleryMounted(GalleryImages(n), m)

----------------------------------------------------------------------------
(* Simple image generation dialog and generateImages:                      *)
(* src/components/ImageGenerationDialog.tsx, src/services/geminiService.ts *)

\* `Image generation failed for image ${i + 1}. No image data returned.`
NoImageDataError(i) ==
  [ isError |-> TRUE,
    message |-> "Image generation failed for image " \o ToString(i + 1)
                  \o ". No image data returned." ]

\* `Failed to generate images: ${message}`
FailedToGenerate(err) == "Failed to generate images: " \o ErrorMessage(err)

\* one promise of imagePromises
InflightCall == [pc |-> "inflight", value |-> Undefined, err |-> Undefined]

AllFulfilled(calls) == \A k \in 1..Len(calls) : calls[k].pc = "fulfilled"

\* the array Promise.all resolves with: the fulfilment values in index order
FulfilledValues(calls) == [k \in 1..Len(calls) |-> calls[k].value[1]]

\* Promise.allSettled in place of Promise.all: a rejection is reported only
\* once no promise is left in flight
PromiseAllWaits(calls, rejectedNow) ==
  IF AllFulfilled(calls) THEN "resolved"
  ELSE IF rejectedNow /\ \A k \in 1..Len(calls) : calls[k].pc # "inflight" THEN "rejected"
  ELSE "awaiting"

\* Promise.all(imagePromises) observed after calls changed:
\* rejected by the first rejection, resolved once every promise is fulfilled
PromiseAll(calls, rejectedNow) ==
  IF rejectedNow THEN "rejected"
  ELSE IF AllFulfilled(calls) THEN "resolved"
  ELSE "awaiting"

\* toggleSelection(index): the value of selectedIndices after the call
SimpleToggle(selected, maxImagesToAdd, index) ==
  IF Includes(selected, index)
    THEN Without(selected, index)
    ELSE IF Len(selected) < maxImagesToAdd
      THEN Append(selected, index)
      ELSE selected

SimpleMounted(initialPrompt, maxImagesToAdd) ==
  [ maxImagesToAdd  |-> maxImagesToAdd,
    prompt          |-> initialPrompt,
    numberOfImages  |-> DefaultNumberOfImages,
    generatedImages |-> <<>>,
    selectedIndices |-> <<>>,
    isLoading       |-> FALSE,
    error           |-> Undefined,
    calls           |-> <<>>,
    batch           |-> "none",
    rejection       |-> Undefined,
    added           |-> Undefined,
    closed          |-> FALSE ]

SimpleUnmounted == [SimpleMounted(<<>>, 0) EXCEPT !.closed = TRUE]

\* handleGenerate up to its await (the Generate button is disabled while loading)
SHandleGenerate(p, n) ==
  /\ component = "simple" /\ ~simple.closed
  /\ ~simple.isLoading
  /\ IF IsBlank(p)
       THEN simple' = [simple EXCEPT !.prompt = p, !.numberOfImages = n,
                                     !.error = Some("Please enter a prompt.")]
       ELSE simple' = [simple EXCEPT !.prompt = p, !.numberOfImages = n,
                                     !.isLoading = TRUE,
                                     !.error = Undefined,
                                     !.generatedImages = <<>>,
                                     !.selectedIndices = <<>>,
                                     !.calls = [k \in 1..n |-> InflightCall],
                                     !.batch = "awaiting",
                                     !.rejection = Undefined]
  /\ UNCHANGED <<component, live, gallery, video>>

\* handleGenerate after its await, given the calls as they now are:
\* try { setGeneratedImages(images) } catch { setError(...) } finally { setIsLoading(false) }
SimpleSettle(calls, err) ==
  LET all == IF simple.batch = "awaiting" THEN PromiseAll(calls, err # Undefined)
             ELSE simple.batch
  IN  IF simple.batch # "awaiting" \/ all = "awaiting"
        THEN [simple EXCEPT !.calls = calls]
        ELSE IF all = "resolved"
          THEN [simple EXCEPT !.calls = calls, !.batch = "resolved",
                              !.generatedImages = FulfilledValues(calls),
                              !.isLoading = FALSE]
          ELSE [simple EXCEPT !.calls = calls, !.batch = "rejected",
                              !.rejection = err,
                              !.error = Some(FailedToGenerate(err[1])),
                              !.isLoading = FALSE]

\* request i answers with a part carrying inlineData
SImageReturned(i, base64) ==
  /\ component = "simple" /\ ~simple.closed
  /\ i < Len(simple.calls) /\ simple.calls[i + 1].pc = "inflight"
  /\ simple' = SimpleSettle(
       [simple.calls EXCEPT ![i + 1] =
          [pc |-> "fulfilled", value |-> Some(base64ToImageFile(base64, i)),
           err |-> Undefined]],
       Undefined)
  /\ UNCHANGED <<component, live, gallery, video>>

\* request i answers with no part carrying inlineData: the .then callback throws
SNoImageData(i) ==
  /\ component = "simple" /\ ~simple.closed
  /\ i < Len(simple.calls) /\ simple.calls[i + 1].pc = "inflight"
  /\ simple' = SimpleSettle(
       [simple.calls EXCEPT ![i + 1] =
          [pc |-> "rejected", value |-> Undefined, err |-> Some(NoImageDataError(i))]],
       Some(NoImageDataError(i)))
  /\ UNCHANGED <<component, live, gallery, video>>

\* generateContent of request i rejects with err
SRequestRejected(i, err) ==
  /\ component = "simple" /\ ~simple.closed
  /\ i < Len(simple.calls) /\ simple.calls[i + 1].pc = "inflight"
  /\ simple' = SimpleSettle(
       [simple.calls EXCEPT ![i + 1] =
          [pc |-> "rejected", value |-> Undefined, err |-> Some(err)]],
       Some(err))
  /\ UNCHANGED <<component, live, gallery, video>>

\* a click on a rendered image (the grid shows only when !isLoading and !error)
SToggleSelection(index) ==
  /\ component = "simple" /\ ~simple.closed
  /\ ~simple.isLoading /\ simple.error = Undefined
  /\ index < Len(simple.generatedImages)
  /\ simple' = [simple EXCEPT !.selectedIndices =
                  SimpleToggle(@, simple.maxImagesToAdd, index)]
  /\ UNCHANGED <<component, live, gallery, video>>

\* Add Selected Images (disabled while the selection is empty):
\* onAddImages(imagesToAdd); onClose()
SHandleAddSelected ==
  /\ component = "simple" /\ ~simple.closed
  /\ Len(simple.selectedIndices) # 0
  /\ simple' = [SimpleUnmounted EXCEPT
       !.added = Some(ImagesToAdd(simple.generatedImages, simple.selectedIndices))]
  /\ UNCHANGED <<component, live, gallery, video>>

\* the X button: onClose (the owner unmounts the dialog: its state is gone)
SClose ==
  /\ component = "simple" /\ ~simple.closed
  /\ simple' = SimpleUnmounted
  /\ UNCHANGED <<component, live, gallery, video>>

SimpleNext ==
  \/ \E p \in Prompts, n \in MinImages..MaxImages : SHandleGenerate(p, n)
  \/ \E i \in 0..(MaxImages - 1), b \in ImageBytes : SImageReturned(i, b)
  \/ \E i \in 0..(MaxImages - 1) : SNoImageData(i)
  \/ \E i \in 0..(MaxImages - 1), e \in ErrorValues : SRequestRejected(i, e)
  \/ \E i \in 0..(MaxImages - 1) : SToggleSelection(i)
  \/ SHandleAddSelected
  \/ SClose

SimpleInit ==
  /\ component = "simple"
  /\ \E p \in Prompts, m \in 0..MaxSelectable : simple = SimpleMounted(p, m)

----------------------------------------------------------------------------
(* generateVideo: src/services/geminiService.ts 15-152                     *)

\* largest number of entries of params.referenceImages
MaxRefs == 2

Modes == {"TEXT_TO_VIDEO", "FRAMES_TO_VIDEO", "REFERENCES_TO_VIDEO", "EXTEND_VIDEO"}

\* an ImageFile the user picked: {file, base64}
UserImage(name) ==
  [ file   |-> [name |-> name \o ".png", type |-> "image/png", data |-> name],
    base64 |-> name ]

\* params.prompt: undefined, '' or a text
VideoPrompts == {Undefined, Some(""), Some("a prompt")}

AspectRatios == {Undefined, Some("16:9")}

ReferenceLists ==
  {Undefined} \cup {Some([k \in 1..n |-> UserImage("ref" \o ToString(k))]) : n \in 0..MaxRefs}

\* the Video object of an earlier generation, handed back for an extension
InputVideo == [uri |-> Some(<<"https", ":", "/", "v0">>)]

VideoParams ==
  [ mode             : Modes,
    model            : {"veo"},
    prompt           : VideoPrompts,
    aspectRatio      : AspectRatios,
    resolution       : {"720p"},
    startFrame       : {Undefined, Some(UserImage("start"))},
    endFrame         : {Undefined, Some(UserImage("end"))},
    isLooping        : BOOLEAN,
    referenceImages  : ReferenceLists,
    styleImage       : {Undefined, Some(UserImage("style"))},
    inputVideoObject : {Undefined, Some(InputVideo)} ]

\* {imageBytes: img.base64, mimeType: img.file.type}
ImagePayload(img) == [imageBytes |-> img.base64, mimeType |-> img.file.type]

\* the aspect ratio copied whatever the mode
ConfigAspectRatioAlways(params) == params.aspectRatio

\* config.aspectRatio: set unless the mode is EXTEND_VIDEO
ConfigAspectRatio(params) ==
  IF params.mode # "EXTEND_VIDEO" THEN params.aspectRatio ELSE Undefined

\* if (params.prompt !== undefined): an empty string is copied too
PayloadPromptWhenDefined(params) == params.prompt

\* if (params.prompt) generateVideoPayload.prompt = params.prompt
PayloadPrompt(params) ==
  IF params.prompt # Undefined /\ params.prompt[1] # "" THEN params.prompt ELSE Undefined

\* the start frame attached whatever the mode
PayloadImageAnyMode(params) ==
  IF params.startFrame # Undefined
    THEN Some(ImagePayload(params.startFrame[1]))
    ELSE Undefined

\* generateVideoPayload.image
PayloadImage(params) ==
  IF params.mode = "FRAMES_TO_VIDEO" /\ params.startFrame # Undefined
    THEN Some(ImagePayload(params.startFrame[1]))
    ELSE Undefined

\* an explicit end frame taking precedence over looping
FinalEndFramePrefersEnd(params) ==
  IF params.endFrame # Undefined THEN params.endFrame
  ELSE IF params.isLooping THEN params.startFrame ELSE Undefined

\* params.isLooping ? params.startFrame : params.endFrame
FinalEndFrame(params) ==
  IF params.isLooping THEN params.startFrame ELSE params.endFrame

\* generateVideoPayload.config.lastFrame
ConfigLastFrame(params) ==
  IF params.mode = "FRAMES_TO_VIDEO" /\ FinalEndFrame(params) # Undefined
    THEN Some(ImagePayload(FinalEndFrame(params)[1]))
    ELSE Undefined

\* the style entry pushed before the asset entries
ReferenceImagesPayloadStyleFirst(params) ==
  LET refs == IF params.referenceImages # Undefined
                THEN params.referenceImages[1] ELSE <<>>
      assets == [k \in 1..Len(refs) |->
                   [image |-> ImagePayload(refs[k]), referenceType |-> "ASSET"]]
      style == IF params.styleImage # Undefined
                 THEN << [image |-> ImagePayload(params.styleImage[1]),
                          referenceType |-> "STYLE"] >>
                 ELSE <<>>
  IN  style \o assets

\* referenceImagesPayload: the asset entries in input order, then the style entry
ReferenceImagesPayload(params) ==
  LET refs == IF params.referenceImages # Undefined
                THEN params.referenceImages[1] ELSE <<>>
      assets == [k \in 1..Len(refs) |->
                   [image |-> ImagePayload(refs[k]), referenceType |-> "ASSET"]]
      style == IF params.styleImage # Undefined
                 THEN << [image |-> ImagePayload(params.styleImage[1]),
                          referenceType |-> "STYLE"] >>
                 ELSE <<>>
  IN  assets \o style

\* generateVideoPayload.config.referenceImages
ConfigReferenceImages(params) ==
  IF params.mode = "REFERENCES_TO_VIDEO" /\ Len(ReferenceImagesPayload(params)) > 0
    THEN Some(ReferenceImagesPayload(params))
    ELSE Undefined

\* generateVideoPayload.video
PayloadVideo(params) ==
  IF params.mode = "EXTEND_VIDEO" THEN params.inputVideoObject ELSE Undefined

\* the check for the input video left out
BuildNeverThrows(params) == FALSE

\* throw new Error('An input video object is required to extend a video.')
BuildThrows(params) ==
  params.mode = "EXTEND_VIDEO" /\ params.inputVideoObject = Undefined

\* the request object handed to ai.models.generateVideos
BuildPayload(params) ==
  [ model  |-> params.model,
    config |-> [ numberOfVideos  |-> 1,
                 resolution      |-> params.resolution,
                 aspectRatio     |-> ConfigAspectRatio(params),
                 lastFrame       |-> ConfigLastFrame(params),
                 referenceImages |-> ConfigReferenceImages(params) ],
    prompt |-> PayloadPrompt(params),
    image  |-> PayloadImage(params),
    video  |-> PayloadVideo(params) ]

\* decodeURIComponent on a URI held as a sequence of tokens: an escape
\* sequence becomes its character; a lone "%" raises URIError
DecodeToken(t) ==
  IF t = "%3A" THEN ":" ELSE IF t = "%2F" THEN "/" ELSE IF t = "%3F" THEN "?" ELSE t

Malformed(uri) == \E k \in 1..Len(uri) : uri[k] = "%"

decodeURIComponent(uri) == [k \in 1..Len(uri) |-> DecodeToken(uri[k])]

\* `${url}&key=${process.env.API_KEY}`
FetchUrl(url) == url \o <<"&key=", "API_KEY">>

\* Video objects of the provider's response
EncodedVideo == [uri |-> Some(<<"https", "%3A", "%2F", "v1", "%3F", "alt=media">>)]
PlainVideo == [uri |-> Some(<<"https", ":", "/", "v2", "?", "alt=media">>)]
MalformedVideo == [uri |-> Some(<<"https", ":", "/", "v3", "%">>)]
NoUriVideo == [uri |-> Undefined]
EmptyUriVideo == [uri |-> Some(<<>>)]

\* operation.response of a finished operation
Responses ==
  { Undefined,
    Some([generatedVideos |-> Undefined]),
    Some([generatedVideos |-> Some(<<>>)]),
    Some([generatedVideos |-> Some(<< [video |-> Undefined] >>)]),
    Some([generatedVideos |-> Some(<< [video |-> Some(NoUriVideo)] >>)]),
    Some([generatedVideos |-> Some(<< [video |-> Some(EmptyUriVideo)] >>)]),
    Some([generatedVideos |-> Some(<< [video |-> Some(MalformedVideo)] >>)]),
    Some([generatedVideos |-> Some(<< [video |-> Some(EncodedVideo)] >>)]),
    Some([generatedVideos |-> Some(<< [video |-> Some(PlainVideo)],
                                      [video |-> Some(EncodedVideo)] >>)]) }

\* the operation handles the provider may answer with
Operations ==
  {[done |-> FALSE, response |-> Undefined]}
    \cup {[done |-> TRUE, response |-> r] : r \in Responses}

\* the answers of the asset fetch
FetchResponses ==
  { [ok |-> TRUE,  status |-> 200, statusText |-> "OK",        blob |-> "video/mp4"],
    [ok |-> FALSE, status |-> 404, statusText |-> "Not Found", blob |-> "text/html"],
    [ok |-> FALSE, status |-> 500, statusText |-> "",          blob |-> ""] }

\* throw new Error('Failed to fetch video.'): the response's status left out
FetchFailedWithoutStatus(res) == "Failed to fetch video."

\* `Failed to fetch video: ${res.status} ${res.statusText}`
FetchFailed(res) ==
  "Failed to fetch video: " \o ToString(res.status) \o " " \o res.statusText

\* while (!operation.done && attempts < 2): the loop gives up after two re-fetches
LoopContinuesBounded(operation) == ~operation.done /\ video.polls < 2

\* do { wait; re-fetch } while (!operation.done): one re-fetch whatever the handle says
LoopContinuesDoWhile(operation) == ~operation.done \/ video.polls = 0

\* while (!operation.done)
LoopContinues(operation) == ~operation.done

\* videos[0] of a response whose list is non-empty
FirstVideo(response) == response.generatedVideos[1][1]

\* if (firstVideo?.video?.uri === undefined): an empty uri passes the check
AfterLoopErrorAcceptsEmptyUri(operation) ==
  IF operation.response = Undefined
    THEN Some("No videos generated.")
  ELSE IF operation.response[1].generatedVideos = Undefined
          \/ Len(operation.response[1].generatedVideos[1]) = 0
    THEN Some("No videos were generated.")
  ELSE IF FirstVideo(operation.response[1]).video = Undefined
          \/ FirstVideo(operation.response[1]).video[1].uri = Undefined
    THEN Some("Generated video is missing a URI.")
  ELSE IF Malformed(FirstVideo(operation.response[1]).video[1].uri[1])
    THEN Some("URIError: URI malformed")
  ELSE Undefined

\* why the code after the loop throws before fetching, or <<>> when it fetches
AfterLoopError(operation) ==
  IF operation.response = Undefined
    THEN Some("No videos generated.")
  ELSE IF operation.response[1].generatedVideos = Undefined
          \/ Len(operation.response[1].generatedVideos[1]) = 0
    THEN Some("No videos were generated.")
  ELSE IF FirstVideo(operation.response[1]).video = Undefined
          \/ FirstVideo(operation.response[1]).video[1].uri = Undefined
          \/ FirstVideo(operation.response[1]).video[1].uri[1] = <<>>
    THEN Some("Generated video is missing a URI.")
  ELSE IF Malformed(FirstVideo(operation.response[1]).video[1].uri[1])
    THEN Some("URIError: URI malformed")
  ELSE Undefined

VideoIdle ==
  [ pc        |-> "idle",
    params    |-> Undefined,
    payload   |-> Undefined,
    operation |-> Undefined,
    checks    |-> 0,
    polls     |-> 0,
    doneAt    |-> 0,
    netCalls  |-> <<>>,
    url       |-> Undefined,
    fetched   |-> Undefined,
    result    |-> Undefined,
    error     |-> Undefined ]

VideoUnmounted == [VideoIdle EXCEPT !.pc = "unused"]

\* generateVideo(params) up to its first await: build the request, submit it
VideoStart(params) ==
  IF BuildThrows(params)
    THEN [video EXCEPT
           !.pc = "failed", !.params = Some(params),
           !.error = Some("An input video object is required to extend a video.")]
    ELSE [video EXCEPT
           !.pc = "submitting", !.params = Some(params),
           !.payload = Some(BuildPayload(params)),
           !.netCalls = Append(@, "generateVideos")]

GenerateVideo ==
  /\ component = "video" /\ video.pc = "idle"
  /\ \E params \in VideoParams : video' = VideoStart(params)
  /\ UNCHANGED <<component, live, simple, gallery>>

\* a finished operation without a usable video is submitted once more instead
\* of failing the call
VideoCheckResubmits(operation) ==
  LET seen == [video EXCEPT !.operation = Some(operation), !.checks = @ + 1]
  IN  IF LoopContinues(operation)
        THEN [seen EXCEPT !.pc = "waiting"]
      ELSE IF AfterLoopError(operation) # Undefined
        THEN IF Len(SelectSeq(video.netCalls, LAMBDA c : c = "generateVideos")) < 2
               THEN [seen EXCEPT !.pc = "submitting",
                                 !.netCalls = Append(@, "generateVideos")]
               ELSE [seen EXCEPT !.pc = "failed", !.error = AfterLoopError(operation)]
      ELSE [seen EXCEPT
              !.pc = "fetching",
              !.url = Some(decodeURIComponent(
                             FirstVideo(operation.response[1]).video[1].uri[1])),
              !.netCalls = Append(@, "fetch")]

\* the loop head with the operation just received, and the code after the loop
\* up to the fetch
VideoCheck(operation) ==
  LET seen == [video EXCEPT
                 !.operation = Some(operation),
                 !.checks = @ + 1,
                 !.doneAt = IF @ = 0 /\ operation.done THEN video.checks + 1 ELSE @]
  IN  IF LoopContinues(operation)
        THEN [seen EXCEPT !.pc = "waiting"]
      ELSE IF AfterLoopError(operation) # Undefined
        THEN [seen EXCEPT !.pc = "failed", !.error = AfterLoopError(operation)]
      ELSE [seen EXCEPT
              !.pc = "fetching",
              !.url = Some(decodeURIComponent(
                             FirstVideo(operation.response[1]).video[1].uri[1])),
              !.fetched = Some(FetchUrl(decodeURIComponent(
                             FirstVideo(operation.response[1]).video[1].uri[1]))),
              !.netCalls = Append(@, "fetch")]

\* ai.models.generateVideos answers with an operation handle
VSubmitResolved(operation) ==
  /\ component = "video" /\ video.pc = "submitting"
  /\ operation.done \/ video.polls < MaxPolls
  /\ video' = VideoCheck(operation)
  /\ UNCHANGED <<component, live, simple, gallery>>

\* ai.models.generateVideos rejects
VSubmitRejected(err) ==
  /\ component = "video" /\ video.pc = "submitting"
  /\ video' = [video EXCEPT !.pc = "failed", !.error = Some(err.message)]
  /\ UNCHANGED <<component, live, simple, gallery>>

\* setTimeout(resolve, 10000) fires: ai.operations.getVideosOperation is called
VPoll ==
  /\ component = "video" /\ video.pc = "waiting"
  /\ video' = [video EXCEPT !.pc = "polling", !.polls = @ + 1,
                            !.netCalls = Append(@, "getVideosOperation")]
  /\ UNCHANGED <<component, live, simple, gallery>>

\* getVideosOperation answers with the operation handle
VPollResolved(operation) ==
  /\ component = "video" /\ video.pc = "polling"
  /\ operation.done \/ video.polls < MaxPolls
  /\ video' = VideoCheck(operation)
  /\ UNCHANGED <<component, live, simple, gallery>>

\* getVideosOperation rejects
VPollRejected(err) ==
  /\ component = "video" /\ video.pc = "polling"
  /\ video' = [video EXCEPT !.pc = "failed", !.error = Some(err.message)]
  /\ UNCHANGED <<component, live, simple, gallery>>

\* the asset fetch answers
VFetchResolved(res) ==
  /\ component = "video" /\ video.pc = "fetching"
  /\ IF ~res.ok
       THEN video' = [video EXCEPT !.pc = "failed", !.error = Some(FetchFailed(res))]
       ELSE video' = [video EXCEPT
              !.pc = "returned",
              !.result = Some([ objectUrl |-> "blob:" \o res.blob,
                                blob      |-> res.blob,
                                uri       |-> video.url[1],
                                video     |-> FirstVideo(video.operation[1].response[1]).video[1] ])]
  /\ UNCHANGED <<component, live, simple, gallery>>

\* the asset fetch rejects
VFetchRejected(err) ==
  /\ component = "video" /\ video.pc = "fetching"
  /\ video' = [video EXCEPT !.pc = "failed", !.error = Some(err.message)]
  /\ UNCHANGED <<component, live, simple, gallery>>

VideoNext ==
  \/ GenerateVideo
  \/ \E op \in Operations : VSubmitResolved(op)
  \/ VSubmitRejected(NetworkError)
  \/ VPoll
  \/ \E op \in Operations : VPollResolved(op)
  \/ VPollRejected(NetworkError)
  \/ \E res \in FetchResponses : VFetchResolved(res)
  \/ VFetchRejected(NetworkError)

VideoInit ==
  /\ component = "video"
  /\ video = VideoIdle

----------------------------------------------------------------------------
Init ==
  \/ LiveInit /\ gallery = GalleryUnmounted /\ simple = SimpleUnmounted /\ video = VideoUnmounted
  \/ GalleryInit /\ live = LiveUnmounted /\ simple = SimpleUnmounted /\ video = VideoUnmounted
  \/ SimpleInit /\ live = LiveUnmounted /\ gallery = GalleryUnmounted /\ video = VideoUnmounted
  \/ VideoInit /\ live = LiveUnmounted /\ gallery = GalleryUnmounted /\ simple = SimpleUnmounted

Next == LiveNext \/ GalleryNext \/ SimpleNext \/ VideoNext

Spec == Init /\ [][Next]_vars

\* the live-status dialog alone, with the scheduling the event loop guarantees:
\* a due promise reaction runs, and every request in flight is answered
LiveSettle(i) ==
  \/ \E b \in ImageBytes, t \in BOOLEAN : LImageReturned(i, b, t)
  \/ LNoImageData(i)
  \/ \E e \in ErrorValues : LRequestRejected(i, e)

LiveOnlyInit ==
  /\ LiveInit
  /\ gallery = GalleryUnmounted /\ simple = SimpleUnmounted /\ video = VideoUnmounted

LiveFairSpec ==
  /\ LiveOnlyInit
  /\ [][LiveNext]_vars
  /\ WF_vars(LFinish)
  /\ \A i \in 0..(MaxImages - 1) : WF_vars(LCatch(i)) /\ WF_vars(LiveSettle(i))

\* generateVideo alone, with the scheduling the event loop guarantees (the
\* timer of the loop fires) and a provider that answers every request and
\* reports completion after MaxPolls re-fetches at the latest
VideoSubmitAnswered ==
  \/ \E op \in Operations : VSubmitResolved(op)
  \/ VSubmitRejected(NetworkError)

VideoPollAnswered ==
  \/ \E op \in Operations : VPollResolved(op)
  \/ VPollRejected(NetworkError)

VideoFetchAnswered ==
  \/ \E res \in FetchResponses : VFetchResolved(res)
  \/ VFetchRejected(NetworkError)

VideoOnlyInit ==
  /\ VideoInit
  /\ live = LiveUnmounted /\ gallery = GalleryUnmounted /\ simple = SimpleUnmounted

VideoFairSpec ==
  /\ VideoOnlyInit
  /\ [][VideoNext]_vars
  /\ WF_vars(VPoll)
  /\ WF_vars(VideoSubmitAnswered)
  /\ WF_vars(VideoPollAnswered)
  /\ WF_vars(VideoFetchAnswered)

----------------------------------------------------------------------------
(* Claims *)

\* request k of the current batch failed: no image came back, or the call rejected
RequestFailed(l, k) == l.requests[k].response \in {"nodata", "rejected"}

\* request k of the current batch succeeded
RequestSucceeded(l, k) == l.requests[k].response = "image" /\ l.requests[k].pc = "fulfilled"

\* the step in which the batch is declared finished
DeclaredFinished ==
  live.generationStatus = "generating" /\ live'.generationStatus = "finished"

\* C1: when the batch is declared finished and exactly request k failed while
\* every other request succeeded, the result array has length N, slot k is
\* 'error' and every other slot is 'success'; a step that settles request i
\* leaves every other request and every other slot as it was (a failure cancels
\* nothing), and the step in which a request comes back with an image marks its
\* own slot 'success' whatever the state of the other slots.
C1_FailureIsolated ==
  /\ [][ DeclaredFinished =>
           \A k \in 1..Len(live'.requests) :
             ( /\ RequestFailed(live', k)
               /\ \A j \in 1..Len(live'.requests) : j # k => RequestSucceeded(live', j) )
             => /\ Len(live'.generationResults) = live.numberOfImages
                /\ live'.generationResults[k].status = "error"
                /\ \A j \in 1..Len(live'.generationResults) :
                     j # k => live'.generationResults[j].status = "success" ]_vars
  /\ [][ \A i \in 1..Len(live.requests) :
           ( /\ live.generationStatus = "generating"
             /\ live'.generationStatus = "generating"
             /\ live'.requests[i] # live.requests[i] )
           => /\ Len(live'.generationResults) = Len(live.generationResults)
              /\ \A j \in 1..Len(live.requests) :
                   j # i => /\ live'.requests[j] = live.requests[j]
                            /\ live'.generationResults[j] = live.generationResults[j]
              /\ ( live.requests[i].pc = "inflight" /\ live'.requests[i].response = "image"
                   => live'.generationResults[i].status = "success" ) ]_vars

\* C1 witness: N = 4, request #2 failed, the others succeeded, batch finished
C1_Witness ==
  /\ component = "live" /\ live.generationStatus = "finished"
  /\ Len(live.requests) = 4 /\ Len(live.generationResults) = 4
  /\ RequestFailed(live, 2)
  /\ \A j \in {1, 3, 4} : RequestSucceeded(live, j)
  /\ live.generationResults[2].status = "error"
  /\ \A j \in {1, 3, 4} : live.generationResults[j].status = "success"

\* the assets of the calls that succeeded, in slot order
RECURSIVE SuccessfulAssets(_)
SuccessfulAssets(calls) ==
  IF calls = <<>> THEN <<>>
  ELSE (IF Head(calls).pc = "fulfilled" THEN Head(calls).value ELSE <<>>)
         \o SuccessfulAssets(Tail(calls))

SimpleCompleted == component = "simple" /\ simple.batch \in {"resolved", "rejected"}

CountCalls(calls, name) == Cardinality({k \in 1..Len(calls) : calls[k] = name})

\* C3: once the handle has reported completion, on check k, the checks made are
\* exactly k, the status re-fetches issued are k - 1 and none is pending or
\* to come; the value returned is built from generatedVideos[0].
C3_PollStopsAtCompletion ==
  component = "video" =>
    /\ video.doneAt # 0 =>
         /\ video.checks = video.doneAt
         /\ video.polls = video.doneAt - 1
         /\ CountCalls(video.netCalls, "getVideosOperation") = video.doneAt - 1
         /\ video.pc \in {"fetching", "returned", "failed"}
    /\ video.doneAt = 0 => video.pc # "returned" /\ video.pc # "fetching"
    /\ video.pc = "returned" =>
         /\ video.result[1].video =
              video.operation[1].response[1].generatedVideos[1][1].video[1]
         /\ video.result[1].uri =
              decodeURIComponent(
                video.operation[1].response[1].generatedVideos[1][1].video[1].uri[1])

\* C3 witness: completion reported on the third check, two videos in the list
C3_Witness ==
  /\ component = "video" /\ video.pc = "returned"
  /\ video.doneAt = 3 /\ video.checks = 3
  /\ Len(video.operation[1].response[1].generatedVideos[1]) = 2

\* C4: an EXTEND_VIDEO call without an input video object fails and makes no
\* network call; with one, the object is attached and the request is submitted.
C4_ExtendNeedsVideo ==
  (component = "video" /\ video.params # Undefined
     /\ video.params[1].mode = "EXTEND_VIDEO") =>
    /\ video.params[1].inputVideoObject = Undefined =>
         /\ video.pc = "failed"
         /\ video.error # Undefined
         /\ video.netCalls = <<>>
    /\ video.params[1].inputVideoObject # Undefined =>
         /\ video.payload # Undefined
         /\ video.payload[1].video = video.params[1].inputVideoObject
         /\ Len(video.netCalls) >= 1 /\ video.netCalls[1] = "generateVideos"

\* C4 witness: the call has failed for want of an input video object
C4_Witness ==
  /\ component = "video" /\ video.pc = "failed"
  /\ video.params[1].mode = "EXTEND_VIDEO"
  /\ video.params[1].inputVideoObject = Undefined

\* the indices of the images a dialog renders, not in the selection
Unselected(n, selected) == {i \in 0..(n - 1) : ~Includes(selected, i)}

\* C5: the selection never exceeds the maximum; with the selection at the
\* maximum a toggle of an unselected item changes nothing, below it the toggle
\* adds the item (gallery, and the simple generation dialog).
C5_SelectionLimit ==
  /\ component = "gallery" =>
       /\ Len(gallery.selectedIndices) <= gallery.maxSelectable
       /\ \A i \in Unselected(Len(gallery.images), gallery.selectedIndices) :
            GalleryToggle(gallery.selectedIndices, gallery.maxSelectable, i) =
              IF Len(gallery.selectedIndices) = gallery.maxSelectable
                THEN gallery.selectedIndices
                ELSE Append(gallery.selectedIndices, i)
  /\ component = "simple" =>
       /\ Len(simple.selectedIndices) <= simple.maxImagesToAdd
       /\ \A i \in Unselected(Len(simple.generatedImages), simple.selectedIndices) :
            SimpleToggle(simple.selectedIndices, simple.maxImagesToAdd, i) =
              IF Len(simple.selectedIndices) = simple.maxImagesToAdd
                THEN simple.selectedIndices
                ELSE Append(simple.selectedIndices, i)

\* C5 witness: the gallery's selection is at its maximum and an image is left
C5_Witness ==
  /\ component = "gallery" /\ ~gallery.closed
  /\ gallery.maxSelectable >= 1
  /\ Len(gallery.selectedIndices) = gallery.maxSelectable
  /\ Unselected(Len(gallery.images), gallery.selectedIndices) # {}

\* C6 as stated: in every dialog and every reachable state, a toggle of an
\* index that is in the selection removes it.
C6_DeselectAlways ==
  /\ component = "gallery" =>
       \A i \in Range(gallery.selectedIndices) :
         ~Includes(GalleryToggle(gallery.selectedIndices, gallery.maxSelectable, i), i)
  /\ component = "simple" =>
       \A i \in Range(simple.selectedIndices) :
         ~Includes(SimpleToggle(simple.selectedIndices, simple.maxImagesToAdd, i), i)
  /\ component = "live" =>
       \A i \in Range(live.selectedIndices) :
         ~Includes(LiveToggle(live.generationResults, live.selectedIndices,
                              live.maxImagesToAdd, i), i)

\* the request of a call that got as far as building one
Built == component = "video" /\ video.payload # Undefined

\* the end-frame field an image file gives
FrameOf(img) == [imageBytes |-> img.base64, mimeType |-> img.file.type]

\* C7: FRAMES_TO_VIDEO: looping with a start frame makes config.lastFrame
\* the start frame, with or without an explicit end frame; without looping it
\* is the explicit end frame or absent; looping without a start frame attaches
\* no end frame.
C7_LoopingEndFrame ==
  (Built /\ video.params[1].mode = "FRAMES_TO_VIDEO") =>
    LET params == video.params[1]
        lastFrame == video.payload[1].config.lastFrame
    IN  /\ (params.isLooping /\ params.startFrame # Undefined)
             => lastFrame = Some(FrameOf(params.startFrame[1]))
        /\ (~params.isLooping /\ params.endFrame # Undefined)
             => lastFrame = Some(FrameOf(params.endFrame[1]))
        /\ (~params.isLooping /\ params.endFrame = Undefined)
             => lastFrame = Undefined
        /\ (params.isLooping /\ params.startFrame = Undefined)
             => lastFrame = Undefined

\* C7 witness: looping, a start frame and a different explicit end frame
C7_Witness ==
  /\ Built /\ video.params[1].mode = "FRAMES_TO_VIDEO"
  /\ video.params[1].isLooping
  /\ video.params[1].startFrame # Undefined
  /\ video.params[1].endFrame # Undefined
  /\ video.params[1].endFrame # video.params[1].startFrame
  /\ video.payload[1].config.lastFrame = Some(FrameOf(video.params[1].startFrame[1]))

\* C8: the built request carries an aspect ratio exactly when the mode is not
\* EXTEND_VIDEO and one was supplied, and then it is the supplied one.
C8_AspectRatio ==
  Built =>
    LET params == video.params[1]
        aspectRatio == video.payload[1].config.aspectRatio
    IN  /\ aspectRatio # Undefined
             <=> (params.mode # "EXTEND_VIDEO" /\ params.aspectRatio # Undefined)
        /\ aspectRatio # Undefined => aspectRatio = params.aspectRatio

\* C8 witness: an EXTEND_VIDEO request built from a call that supplied a ratio
C8_Witness ==
  /\ Built /\ video.params[1].mode = "EXTEND_VIDEO"
  /\ video.params[1].aspectRatio # Undefined
  /\ video.payload[1].config.aspectRatio = Undefined

\* C9: every entry of the result array is pending without data and message,
\* or success with an asset and no message, or error with a message and no data.
C9_ResultShape ==
  component = "live" =>
    \A k \in 1..Len(live.generationResults) :
      LET r == live.generationResults[k]
      IN  \/ r.status = "pending" /\ r.data = Undefined /\ r.error = Undefined
          \/ r.status = "success" /\ r.data # Undefined /\ r.error = Undefined
          \/ r.status = "error" /\ r.error # Undefined /\ r.data = Undefined

\* C9 witness: one batch shows a pending, a successful and a failed slot
C9_Witness ==
  /\ component = "live" /\ live.generationStatus = "generating"
  /\ \E k \in 1..Len(live.generationResults) : live.generationResults[k].status = "pending"
  /\ \E k \in 1..Len(live.generationResults) : live.generationResults[k].status = "success"
  /\ \E k \in 1..Len(live.generationResults) : live.generationResults[k].status = "error"

\* C10: while generating, all N requests of the batch have been issued;
\* finished is declared only with no slot pending; and, every request being
\* answered, a batch that is generating is in the end declared finished
\* (unless the dialog is closed first).
C10_FinishedAfterAllSettle ==
  /\ [](live.generationStatus = "generating" =>
          /\ Len(live.requests) = live.numberOfImages
          /\ Len(live.generationResults) = live.numberOfImages)
  /\ [](live.generationStatus = "finished" =>
          \A k \in 1..Len(live.generationResults) :
            live.generationResults[k].status # "pending")
  /\ [][DeclaredFinished =>
          \A k \in 1..Len(live.requests) :
            live.requests[k].pc \in {"fulfilled", "rejected"}]_vars
  /\ (live.generationStatus = "generating"
        ~> (live.generationStatus = "finished" \/ live.closed))

\* C10 witness: a batch of four declared finished
C10_Witness ==
  /\ component = "live" /\ live.generationStatus = "finished" /\ ~live.closed
  /\ Len(live.requests) = 4 /\ Len(live.generationResults) = 4
  /\ \A k \in 1..4 : live.requests[k].pc \in {"fulfilled", "rejected"}

\* the finished operation carries a response whose list is non-empty and whose
\* first element has a video with a non-empty uri
HasFirstUri(operation) ==
  /\ operation.response # Undefined
  /\ operation.response[1].generatedVideos # Undefined
  /\ Len(operation.response[1].generatedVideos[1]) > 0
  /\ operation.response[1].generatedVideos[1][1].video # Undefined
  /\ operation.response[1].generatedVideos[1][1].video[1].uri # Undefined
  /\ operation.response[1].generatedVideos[1][1].video[1].uri[1] # <<>>

\* C11: once the operation has reported completion, the asset is fetched and a
\* result returned only when the response's list is non-empty and its first
\* element has a uri; with no response, a missing or empty list, or a first
\* element without a uri, the call has failed with an error, has returned
\* nothing and has issued no fetch.
C11_SuccessNeedsFirstUri ==
  (component = "video" /\ video.doneAt # 0) =>
    /\ video.pc \in {"fetching", "returned"} => HasFirstUri(video.operation[1])
    /\ video.result # Undefined => video.pc = "returned"
    /\ CountCalls(video.netCalls, "fetch") > 0 => HasFirstUri(video.operation[1])
    /\ ~HasFirstUri(video.operation[1]) =>
         /\ video.pc = "failed"
         /\ video.error # Undefined /\ video.error # Some("")
         /\ video.result = Undefined
         /\ video.url = Undefined /\ video.fetched = Undefined
         /\ CountCalls(video.netCalls, "fetch") = 0

\* C11 witness: the finished operation's first element has no uri, and the call
\* has failed without a fetch
C11_Witness ==
  /\ component = "video" /\ video.pc = "failed" /\ video.doneAt # 0
  /\ video.operation[1].response # Undefined
  /\ video.operation[1].response[1].generatedVideos # Undefined
  /\ Len(video.operation[1].response[1].generatedVideos[1]) = 1
  /\ video.operation[1].response[1].generatedVideos[1][1].video = Some(NoUriVideo)
  /\ video.error = Some("Generated video is missing a URI.")
  /\ CountCalls(video.netCalls, "fetch") = 0

\* C12: the step in which the asset fetch answers: a non-success status fails
\* the call with an error made of the status code and the reason text, and no
\* result (object URL, blob) exists; a success status returns a result whose
\* blob is the response's and whose object URL is made from that blob. A call
\* that has failed never holds a result.
C12_FetchStatus ==
  /\ [][ \A res \in FetchResponses :
           VFetchResolved(res) =>
             /\ ~res.ok =>
                  /\ video'.pc = "failed"
                  /\ video'.error =
                       Some("Failed to fetch video: " \o ToString(res.status)
                              \o " " \o res.statusText)
                  /\ video'.result = Undefined
             /\ res.ok =>
                  /\ video'.pc = "returned"
                  /\ video'.error = Undefined
                  /\ video'.result # Undefined
                  /\ video'.result[1].blob = res.blob
                  /\ video'.result[1].objectUrl = "blob:" \o res.blob ]_vars
  /\ [](component = "video" =>
          /\ video.pc = "failed" => video.result = Undefined
          /\ video.result # Undefined => video.pc = "returned")

\* C12 witness: the fetch was issued and answered 404 Not Found
C12_Witness ==
  /\ component = "video" /\ video.pc = "failed"
  /\ CountCalls(video.netCalls, "fetch") = 1
  /\ video.error = Some("Failed to fetch video: 404 Not Found")
  /\ video.result = Undefined

\* a prompt that is empty or made of whitespace only
WhitespaceOnly(p) == \A k \in 1..Len(p) : p[k] = " "

\* C13: a click on Generate with an empty or whitespace-only prompt issues no
\* generation request and shows an error message: the live-status dialog holds
\* one 'error' entry with a message and is 'finished'; the simple dialog holds
\* an error and is not loading; in both, the requests are those there were.
C13_BlankPromptRejected ==
  /\ [][ \A p \in {q \in Prompts : WhitespaceOnly(q)}, n \in MinImages..MaxImages :
           (component = "live" /\ live' # live /\ LHandleGenerate(p, n)) =>
             /\ live'.requests = live.requests
             /\ live'.generationStatus = "finished"
             /\ Len(live'.generationResults) = 1
             /\ live'.generationResults[1].status = "error"
             /\ live'.generationResults[1].error # Undefined
             /\ live'.generationResults[1].error # Some("") ]_vars
  /\ [][ \A p \in {q \in Prompts : WhitespaceOnly(q)}, n \in MinImages..MaxImages :
           (component = "simple" /\ simple' # simple /\ SHandleGenerate(p, n)) =>
             /\ simple'.calls = simple.calls
             /\ simple'.batch = simple.batch
             /\ ~simple'.isLoading
             /\ simple'.error # Undefined
             /\ simple'.error # Some("") ]_vars

\* C13 witness: Generate was clicked on a prompt of two spaces in a dialog that
\* has not issued a request
C13_Witness ==
  /\ component = "live" /\ ~live.closed
  /\ live.prompt = <<" ", " ">>
  /\ live.generationStatus = "finished"
  /\ live.generationResults = PromptErrorResults
  /\ live.requests = <<>>

\* the step in which the user starts a batch
LiveBatchStarts ==
  live.generationStatus # "generating" /\ live'.generationStatus = "generating"

SimpleBatchStarts == ~simple.isLoading /\ simple'.isLoading

\* C14: a generateVideo call that got past its validation has issued exactly
\* one submit request (one that failed validation none) and at most one asset
\* fetch, and once it has returned or failed it issues nothing more. A batch
\* the user starts issues one request per slot, N in all; afterwards the
\* number of requests changes and a settled request is in flight again only
\* in a step in which the user starts the next batch (or closes the dialog).
C14_NoRetry ==
  /\ [](component = "video" /\ video.pc # "idle" =>
          /\ CountCalls(video.netCalls, "generateVideos")
               = (IF video.payload = Undefined THEN 0 ELSE 1)
          /\ CountCalls(video.netCalls, "fetch") <= 1)
  /\ [][(component = "video" /\ video.pc \in {"failed", "returned"})
          => video' = video]_vars
  /\ [][(component = "live" /\ LiveBatchStarts) =>
          /\ Len(live'.requests) = live'.numberOfImages
          /\ Len(live'.generationResults) = live'.numberOfImages
          /\ \A k \in 1..Len(live'.requests) : live'.requests[k].pc = "inflight"]_vars
  /\ [][(component = "live" /\ ~LiveBatchStarts /\ ~live'.closed) =>
          /\ Len(live'.requests) = Len(live.requests)
          /\ \A k \in 1..Len(live.requests) :
               live.requests[k].pc # "inflight" => live'.requests[k].pc # "inflight"]_vars
  /\ [][(component = "simple" /\ SimpleBatchStarts) =>
          /\ Len(simple'.calls) = simple'.numberOfImages
          /\ \A k \in 1..Len(simple'.calls) : simple'.calls[k].pc = "inflight"]_vars
  /\ [][(component = "simple" /\ ~SimpleBatchStarts /\ ~simple'.closed) =>
          /\ Len(simple'.calls) = Len(simple.calls)
          /\ \A k \in 1..Len(simple.calls) :
               simple.calls[k].pc # "inflight" => simple'.calls[k].pc # "inflight"]_vars

\* C14 witness: a call that polled, fetched once and failed on the fetch
C14_Witness ==
  /\ component = "video" /\ video.pc = "failed"
  /\ video.polls >= 1
  /\ CountCalls(video.netCalls, "generateVideos") = 1
  /\ CountCalls(video.netCalls, "fetch") = 1
  /\ video.netCalls[Len(video.netCalls)] = "fetch"

\* the gallery's confirmation hands over images[index] for each selected index,
\* in selection order, and closes the dialog
GalleryAddsSelection ==
  GHandleAddSelected =>
    /\ gallery'.closed
    /\ gallery'.added # Undefined
    /\ Len(gallery'.added[1]) = Len(gallery.selectedIndices)
    /\ \A k \in 1..Len(gallery.selectedIndices) :
         /\ gallery.selectedIndices[k] < Len(gallery.images)
         /\ gallery'.added[1][k] = Some(gallery.images[gallery.selectedIndices[k] + 1])

\* the same for the simple generation dialog and generatedImages
SimpleAddsSelection ==
  SHandleAddSelected =>
    /\ simple'.closed
    /\ simple'.added # Undefined
    /\ Len(simple'.added[1]) = Len(simple.selectedIndices)
    /\ \A k \in 1..Len(simple.selectedIndices) :
         /\ simple.selectedIndices[k] < Len(simple.generatedImages)
         /\ simple'.added[1][k] =
              Some(simple.generatedImages[simple.selectedIndices[k] + 1])

\* the same for the live-status dialog and the data of the selected slots
LiveAddsSelection ==
  LHandleAddSelected =>
    /\ live'.closed
    /\ live'.added # Undefined
    /\ Len(live'.added[1]) = Len(live.selectedIndices)
    /\ \A k \in 1..Len(live.selectedIndices) :
         /\ live.selectedIndices[k] < Len(live.generationResults)
         /\ live.generationResults[live.selectedIndices[k] + 1].data =
              Some(live'.added[1][k])

\* C15 as stated: in each of the three dialogs a click on Add Selected Images
\* calls onAddImages with one asset for every selected index and no other, in
\* selection order, so with as many elements as the selection, and closes the
\* dialog.
C15_AddsExactlySelection ==
  /\ [][GalleryAddsSelection]_vars
  /\ [][SimpleAddsSelection]_vars
  /\ [][LiveAddsSelection]_vars

\* the call is running: submitted and neither returned nor failed
VideoRunning == video.pc \in {"submitting", "waiting", "polling", "fetching"}

\* the step receives an operation handle (from the submit or from a re-fetch)
HandleReceived == video.pc \in {"submitting", "polling"} /\ video'.checks = video.checks + 1

\* C16: a handle received with the completion flag unset puts the call back
\* to waiting, after any number of re-fetches; a waiting call does nothing but
\* re-fetch; the call leaves the loop only on a handle that reports completion
\* or on a re-fetch that throws. With a provider that answers and in the end
\* reports completion, a running call in the end returns or fails.
C16_PollUntilDone ==
  /\ [][(component = "video" /\ HandleReceived /\ ~video'.operation[1].done)
          => video'.pc = "waiting" /\ video'.error = Undefined]_vars
  /\ [][(component = "video" /\ video.pc = "waiting")
          => video'.pc \in {"waiting", "polling"}]_vars
  /\ [][(component = "video" /\ video.pc = "polling" /\ video'.pc = "polling")
          => video' = video]_vars
  /\ [](component = "video" /\ video.pc \in {"fetching", "returned"}
          => video.operation # Undefined /\ video.operation[1].done)
  /\ [](component = "video" /\ video.pc = "failed" /\ video.operation # Undefined
          /\ ~video.operation[1].done
          => video.error = Some(NetworkError.message) /\ video.polls >= 1)
  /\ (VideoRunning ~> video.pc \in {"returned", "failed"})

\* C16 witness: the call returned after MaxPolls re-fetches, each but the last
\* answered with the completion flag unset
C16_Witness ==
  /\ component = "video" /\ video.pc = "returned"
  /\ video.polls = MaxPolls /\ video.doneAt = MaxPolls + 1
  /\ CountCalls(video.netCalls, "getVideosOperation") = MaxPolls

\* the reference images a call supplied (none when the field is absent)
SuppliedRefs(params) ==
  IF params.referenceImages = Undefined THEN <<>> ELSE params.referenceImages[1]

\* C17: REFERENCES_TO_VIDEO: config.referenceImages holds one ASSET entry per
\* supplied reference image, in input order, then one STYLE entry exactly when
\* a style image was supplied, and nothing else; with neither supplied the
\* field is absent (never an empty list).
C17_ReferenceList ==
  (Built /\ video.params[1].mode = "REFERENCES_TO_VIDEO") =>
    LET params == video.params[1]
        refs == SuppliedRefs(params)
        hasStyle == params.styleImage # Undefined
        field == video.payload[1].config.referenceImages
    IN  /\ field = Undefined <=> (Len(refs) = 0 /\ ~hasStyle)
        /\ field # Some(<<>>)
        /\ field # Undefined =>
             /\ Len(field[1]) = Len(refs) + (IF hasStyle THEN 1 ELSE 0)
             /\ \A k \in 1..Len(refs) :
                  field[1][k] = [image |-> FrameOf(refs[k]), referenceType |-> "ASSET"]
             /\ hasStyle =>
                  field[1][Len(refs) + 1] =
                    [image |-> FrameOf(params.styleImage[1]), referenceType |-> "STYLE"]

\* C17 witness: two reference images and a style image gave three entries
C17_Witness ==
  /\ Built /\ video.params[1].mode = "REFERENCES_TO_VIDEO"
  /\ Len(SuppliedRefs(video.params[1])) = 2
  /\ SuppliedRefs(video.params[1])[1] # SuppliedRefs(video.params[1])[2]
  /\ video.params[1].styleImage # Undefined
  /\ video.payload[1].config.referenceImages # Undefined
  /\ Len(video.payload[1].config.referenceImages[1]) = 3

\* the message the claim expects for a failure: the error's own message when it
\* is an Error carrying one, the default string otherwise
ExpectedMessage(err) ==
  IF err.isError /\ err.message # "" THEN err.message ELSE "An unknown error occurred."

\* C18 as stated: the message recorded by the catch of request i (live-status
\* dialog), and the one shown when the batch fails (simple dialog), is the
\* underlying error's message when it carries one and the default string when
\* it is not an Error or its message is empty; it is never empty.
C18_FailureMessage ==
  /\ [][ \A i \in 0..(MaxImages - 1) :
           (component = "live" /\ LCatch(i)) =>
             /\ live'.generationResults[i + 1].error =
                  Some(ExpectedMessage(live.requests[i + 1].err[1]))
             /\ live'.generationResults[i + 1].error # Some("") ]_vars
  /\ [][ (component = "simple" /\ simple.batch = "awaiting" /\ simple'.batch = "rejected") =>
           simple'.error =
             Some("Failed to generate images: " \o ExpectedMessage(simple'.rejection[1])) ]_vars

\* a step inside one batch of the live-status dialog
WithinBatch ==
  /\ component = "live"
  /\ live.generationStatus = "generating" /\ live'.generationStatus = "generating"

\* C19: in every step inside a batch the result array keeps its length N, at
\* most one slot changes, and a slot changes only in a step of its own
\* request, which leaves every other request as it was: no slot is ever
\* written on behalf of two requests, in any interleaving of the completions.
C19_OwnSlotOnly ==
  [][ WithinBatch =>
        /\ Len(live.generationResults) = live.numberOfImages
        /\ Len(live'.generationResults) = live.numberOfImages
        /\ Len(live'.requests) = live.numberOfImages
        /\ \A k \in 1..live.numberOfImages :
             live'.generationResults[k] # live.generationResults[k] =>
               /\ live'.requests[k] # live.requests[k]
               /\ \A j \in 1..live.numberOfImages :
                    j # k => /\ live'.generationResults[j] = live.generationResults[j]
                             /\ live'.requests[j] = live.requests[j] ]_vars

\* C19 witness: in a batch of three, request #3 succeeded and request #2 failed
\* while request #1 is still in flight and its slot pending
C19_Witness ==
  /\ component = "live" /\ live.generationStatus = "generating"
  /\ Len(live.generationResults) = 3
  /\ live.requests[1].pc = "inflight"
  /\ live.generationResults[1].status = "pending"
  /\ live.generationResults[2].status = "error"
  /\ live.generationResults[3].status = "success"

\* C20 as stated: inside a batch a slot's status changes only from 'pending',
\* to 'success' or to 'error': a 'success' slot stays 'success' (also when
\* onImagesGenerated throws after the success update) and an 'error' slot
\* stays 'error'.
C20_StatusChangesOnce ==
  [][ WithinBatch =>
        \A k \in 1..Len(live.generationResults) :
          /\ k <= Len(live'.generationResults)
          /\ live.generationResults[k].status = "success"
               => live'.generationResults[k].status = "success"
          /\ live.generationResults[k].status = "error"
               => live'.generationResults[k].status = "error"
          /\ live'.generationResults[k].status # live.generationResults[k].status
               => /\ live.generationResults[k].status = "pending"
                  /\ live'.generationResults[k].status \in {"success", "error"} ]_vars

\* the supplied prompt is missing or the empty string
NoPrompt(params) == params.prompt = Undefined \/ params.prompt = Some("")

\* C21: in every mode the built request has a prompt field exactly when the
\* supplied prompt is a non-empty string, and then it is that string; a call
\* with an empty or missing prompt (and no other validation failure) builds its
\* request without a prompt and submits it.
C21_PromptIffNonEmpty ==
  (component = "video" /\ video.params # Undefined) =>
    LET params == video.params[1]
    IN  /\ Built =>
             /\ video.payload[1].prompt # Undefined <=> ~NoPrompt(params)
             /\ ~NoPrompt(params) => video.payload[1].prompt = params.prompt
        /\ (NoPrompt(params)
              /\ ~(params.mode = "EXTEND_VIDEO" /\ params.inputVideoObject = Undefined)) =>
             /\ Built
             /\ video.payload[1].prompt = Undefined
             /\ Len(video.netCalls) >= 1 /\ video.netCalls[1] = "generateVideos"

\* C21 witness: a REFERENCES_TO_VIDEO call with the empty string as its prompt
\* was submitted without a prompt field
C21_Witness ==
  /\ Built /\ video.params[1].mode = "REFERENCES_TO_VIDEO"
  /\ video.params[1].prompt = Some("")
  /\ video.payload[1].prompt = Undefined
  /\ video.pc = "submitting"
  /\ video.netCalls = <<"generateVideos">>

\* C22 as stated: in every state of the live-status dialog each selected index
\* is that of an existing slot with status 'success', so the selection is no
\* larger than min(maxImagesToAdd, number of 'success' slots).
C22_SelectionIsSuccessSlots ==
  (component = "live" /\ ~live.closed) =>
    /\ \A k \in 1..Len(live.selectedIndices) :
         /\ live.selectedIndices[k] < Len(live.generationResults)
         /\ live.generationResults[live.selectedIndices[k] + 1].status = "success"
    /\ Len(live.selectedIndices)
         <= Min(live.maxImagesToAdd, SuccessCount(live.generationResults))

\* every request the dialog holds has settled and run its callbacks
LiveNoneUnsettled ==
  \A k \in 1..Len(live.requests) : live.requests[k].pc \in {"fulfilled", "rejected"}

\* C23: whenever the live-status dialog is not 'generating' (the only time
\* Generate is accepted) no request is unsettled; a step that starts a batch
\* begins from such a state and replaces requests and slots by N fresh ones;
\* while 'generating' the prompt, the batch size and the set of requests stay
\* as they are, so every completion writes into the array of its own batch.
C23_OneBatchAtATime ==
  /\ [](component = "live" /\ live.generationStatus # "generating" => LiveNoneUnsettled)
  /\ [][(component = "live" /\ LiveBatchStarts) =>
          /\ LiveNoneUnsettled
          /\ \A k \in 1..Len(live'.requests) : live'.requests[k] = InflightRequest
          /\ live'.generationResults = [k \in 1..Len(live'.requests) |-> PendingResult]]_vars
  /\ [][(component = "live" /\ live.generationStatus = "generating" /\ ~live'.closed) =>
          /\ live'.prompt = live.prompt
          /\ live'.numberOfImages = live.numberOfImages
          /\ Len(live'.requests) = Len(live.requests)
          /\ \A k \in 1..Len(live.requests) :
               live'.requests[k].pc = "inflight" => live'.requests[k] = live.requests[k]]_vars

\* C23 witness: a batch of two is 'generating' (Generate is refused) with
\* request #1 settled as failed and request #2 still unsettled
C23_Witness ==
  /\ component = "live" /\ live.generationStatus = "generating"
  /\ Len(live.requests) = 2 /\ Len(live.generationResults) = 2
  /\ live.requests[1].pc = "rejected" /\ live.requests[2].pc = "inflight"
  /\ live.generationResults[1].status = "error"
  /\ live.generationResults[2].status = "pending"

\* C24 as stated: when the batch is declared finished, onImagesGenerated has
\* been invoked exactly once for each slot that is 'success' and never for a
\* slot that is 'error'; inside a batch it is invoked for request k only in
\* the step that marks slot k 'success'; outside a batch (the blank-prompt
\* path included) it is not invoked.
C24_NotifiedOncePerSuccess ==
  /\ [][ DeclaredFinished =>
           \A k \in 1..Len(live'.requests) :
             /\ live'.generationResults[k].status = "success"
                  => live'.requests[k].notified = 1
             /\ live'.generationResults[k].status = "error"
                  => live'.requests[k].notified = 0 ]_vars
  /\ [][ WithinBatch =>
           \A k \in 1..Len(live.requests) :
             live'.requests[k].notified # live.requests[k].notified =>
               /\ live'.requests[k].notified = live.requests[k].notified + 1
               /\ live.generationResults[k].status = "pending"
               /\ live'.generationResults[k].status = "success" ]_vars
  /\ [][ (component = "live" /\ live.generationStatus # "generating"
            /\ live'.generationStatus # "generating" /\ ~live'.closed) =>
           live'.requests = live.requests ]_vars

\* C25: the built request holds only the media fields of the call's mode,
\* whatever else was supplied: TEXT_TO_VIDEO none of image, lastFrame,
\* referenceImages, video; FRAMES_TO_VIDEO no referenceImages and no video;
\* REFERENCES_TO_VIDEO no image, lastFrame or video; EXTEND_VIDEO no image,
\* lastFrame or referenceImages.
C25_OnlyModeInputs ==
  Built =>
    LET mode == video.params[1].mode
        image == video.payload[1].image
        lastFrame == video.payload[1].config.lastFrame
        referenceImages == video.payload[1].config.referenceImages
        source == video.payload[1].video
    IN  /\ mode = "TEXT_TO_VIDEO" =>
             /\ image = Undefined /\ lastFrame = Undefined
             /\ referenceImages = Undefined /\ source = Undefined
        /\ mode = "FRAMES_TO_VIDEO" =>
             referenceImages = Undefined /\ source = Undefined
        /\ mode = "REFERENCES_TO_VIDEO" =>
             image = Undefined /\ lastFrame = Undefined /\ source = Undefined
        /\ mode = "EXTEND_VIDEO" =>
             image = Undefined /\ lastFrame = Undefined /\ referenceImages = Undefined

\* the call supplied an input of every kind
AllInputsSupplied(params) ==
  /\ params.startFrame # Undefined /\ params.endFrame # Undefined
  /\ params.referenceImages # Undefined /\ Len(params.referenceImages[1]) > 0
  /\ params.styleImage # Undefined /\ params.inputVideoObject # Undefined

\* C25 witness: a TEXT_TO_VIDEO call supplied frames, references, a style image
\* and a source video, and its request holds none of them
C25_Witness ==
  /\ Built /\ video.params[1].mode = "TEXT_TO_VIDEO"
  /\ AllInputsSupplied(video.params[1])
  /\ video.payload[1].image = Undefined
  /\ video.payload[1].config.lastFrame = Undefined
  /\ video.payload[1].config.referenceImages = Undefined
  /\ video.payload[1].video = Undefined

====
